---- MODULE Spec2Model ----
(***************************************************************************)
(* Model of scripts/env-detect.py: the EnvironmentDetector class and main. *)
(*                                                                         *)
(* The detector is a stateless battery of probes over a project root.  The *)
(* state of the model is the environment one run sees (the entries under   *)
(* the project root, the content of package.json, the VIRTUAL_ENV variable,*)
(* the installed binaries and what each invocation returns) together with  *)
(* the last public operation called on the detector and what it returned.  *)
(*                                                                         *)
(* Python values are tagged records, so that json.dumps can tell a str     *)
(* from a pathlib.Path; a dict is its items in insertion order.            *)
(***************************************************************************)
EXTENDS Naturals, Sequences, FiniteSets

VARIABLES
    rootExists,   \* whether the project root is a readable directory
    fs,           \* the entries under the project root (relative paths)
    pkg,          \* what package.json holds when it is there
    virtualEnv,   \* os.environ.get("VIRTUAL_ENV") is set and non-empty
    installed,    \* the binaries subprocess.run can start
    exits,        \* per invocation: the exit code and the captured stdout
    call,         \* the last operation called: [op, format]
    ret           \* what it returned: [raised, value]

vars == <<rootExists, fs, pkg, virtualEnv, installed, exits, call, ret>>
world == <<rootExists, fs, pkg, virtualEnv, installed, exits>>

(***************************************************************************)
(* Bounds of the model.                                                    *)
(***************************************************************************)
\* source files of one extension under the root
MaxFiles == 1
\* keys in one dependency table of package.json
MaxDeps == 2

(***************************************************************************)
(* Python values.                                                          *)
(***************************************************************************)
Str(s) == [t |-> "str", s |-> s]
Int(n) == [t |-> "int", n |-> n]
Bool(b) == [t |-> "bool", b |-> b]
None == [t |-> "None"]
List(elems) == [t |-> "list", elems |-> elems]
Dict(items) == [t |-> "dict", items |-> items]
PathObj(p) == [t |-> "Path", p |-> p]

\* bool(v)
Truthy(v) ==
    CASE v.t = "None" -> FALSE
      [] v.t = "bool" -> v.b
      [] v.t = "str" -> v.s # ""
      [] v.t = "int" -> v.n # 0
      [] v.t = "list" -> v.elems # <<>>
      [] v.t = "dict" -> v.items # <<>>
      [] OTHER -> TRUE

\* k in d
DictHas(d, k) == \E i \in 1..Len(d.items) : d.items[i][1] = k

\* d[k], for a key that is there; d.get(k) otherwise
DictGet(d, k) ==
    IF DictHas(d, k)
    THEN d.items[CHOOSE i \in 1..Len(d.items) : d.items[i][1] = k][2]
    ELSE None

\* list(d.keys())
DictKeys(d) == [i \in 1..Len(d.items) |-> d.items[i][1]]

(***************************************************************************)
(* The project root.  A path is the directories below the root and a name; *)
(* a name is split into the segments the glob patterns tell apart.         *)
(***************************************************************************)
P(dir, name) == [dir |-> dir, name |-> name]
AtRoot(name) == P(<<>>, name)

\* a glob pattern "prefix*suffix"
Glob(prefix, suffix) == [prefix |-> prefix, suffix |-> suffix]

\* fnmatch of a name against "prefix*suffix"
fnmatch(name, pat) ==
    /\ Len(name) >= Len(pat.prefix) + Len(pat.suffix)
    /\ SubSeq(name, 1, Len(pat.prefix)) = pat.prefix
    /\ SubSeq(name, Len(name) - Len(pat.suffix) + 1, Len(name)) = pat.suffix

\* self.project_path.rglob(pattern): every entry below the root, at any depth
rglob(pat) == {p \in fs : rootExists /\ fnmatch(p.name, pat)}

\* (self.project_path / name).exists()
exists(dir, name) == rootExists /\ P(dir, name) \in fs

\* "compose" in f.name
NameContains(name, seg) == \E i \in 1..Len(name) : name[i] = seg

\* f.name.startswith("Dockerfile")
NameStartsWith(name, seg) == Len(name) >= 1 /\ name[1] = seg

RECURSIVE SetToSeq(_)
\* list(...) of a generator of paths: some order of the entries
SetToSeq(S) ==
    IF S = {} THEN <<>>
    ELSE LET x == CHOOSE y \in S : TRUE IN <<x>> \o SetToSeq(S \ {x})

(***************************************************************************)
(* External commands.                                                      *)
(***************************************************************************)
Binaries ==
    {"python", "node", "go", "rustc", "git", "bandit", "safety", "npm",
     "snyk", "semgrep", "gosec"}

\* the command lines the detector runs, and the binary each starts
Invocations ==
    {"python --version", "node --version", "go version", "rustc --version",
     "git branch --show-current", "git remote get-url origin",
     "git status --porcelain", "bandit --version", "safety --version",
     "npm --version", "npm audit --help", "snyk --version",
     "semgrep --version", "gosec --version"}

BinaryOf(inv) ==
    CASE inv = "python --version" -> "python"
      [] inv = "node --version" -> "node"
      [] inv = "go version" -> "go"
      [] inv = "rustc --version" -> "rustc"
      [] inv \in {"git branch --show-current", "git remote get-url origin",
                  "git status --porcelain"} -> "git"
      [] inv = "bandit --version" -> "bandit"
      [] inv = "safety --version" -> "safety"
      [] inv \in {"npm --version", "npm audit --help"} -> "npm"
      [] inv = "snyk --version" -> "snyk"
      [] inv = "semgrep --version" -> "semgrep"
      [] inv = "gosec --version" -> "gosec"

\* subprocess.run raises (FileNotFoundError) when the binary cannot be started
RunRaises(inv) == BinaryOf(inv) \notin installed

\* try: subprocess.run(..., capture_output=True, text=True);
\*      return result.stdout.strip()   except: return None
\* The exit code is not looked at.
StdoutOrNone(inv) == IF RunRaises(inv) THEN None ELSE Str(exits[inv].stdout)

_get_python_version == StdoutOrNone("python --version")
_get_node_version == StdoutOrNone("node --version")
_get_go_version == StdoutOrNone("go version")
_get_rust_version == StdoutOrNone("rustc --version")
_get_git_branch == StdoutOrNone("git branch --show-current")
_get_git_remote == StdoutOrNone("git remote get-url origin")

_has_uncommitted_changes ==
    IF RunRaises("git status --porcelain") THEN FALSE
    ELSE exits["git status --porcelain"].stdout # ""

\* subprocess.run([command, "--version"], check=True): a nonzero exit raises too
_command_exists(command) ==
    LET inv == CASE command = "bandit" -> "bandit --version"
                 [] command = "safety" -> "safety --version"
                 [] command = "npm" -> "npm --version"
                 [] command = "snyk" -> "snyk --version"
                 [] command = "semgrep" -> "semgrep --version"
                 [] command = "gosec" -> "gosec --version"
    IN  ~RunRaises(inv) /\ exits[inv].rc = 0

\* the outputs of "npm audit --help" that hold the substring "audit"
AuditUsage == "npm audit [--json] [--production]"

_has_npm_audit ==
    IF RunRaises("npm audit --help") THEN FALSE
    ELSE exits["npm audit --help"].stdout = AuditUsage

(***************************************************************************)
(* Names the detector looks for.                                           *)
(***************************************************************************)
PyGlob == Glob(<<>>, <<".py">>)
TsGlob == Glob(<<>>, <<".ts">>)
JsGlob == Glob(<<>>, <<".js">>)
GoGlob == Glob(<<>>, <<".go">>)
RsGlob == Glob(<<>>, <<".rs">>)

\* dockerfile_patterns: "Dockerfile*", "docker-compose*.yml", "docker-compose*.yaml"
dockerfile_patterns ==
    << Glob(<<"Dockerfile">>, <<>>),
       Glob(<<"docker-", "compose">>, <<".yml">>),
       Glob(<<"docker-", "compose">>, <<".yaml">>) >>

PackageJson == <<"package", ".json">>
GoMod == <<"go", ".mod">>
CargoToml == <<"Cargo", ".toml">>
RequirementsTxt == <<"requirements", ".txt">>
PyprojectToml == <<"pyproject", ".toml">>
SetupPy == <<"setup", ".py">>
Pipfile == <<"Pipfile">>
YarnLock == <<"yarn", ".lock">>
PnpmLock == <<"pnpm-lock", ".yaml">>
PackageLock == <<"package-lock", ".json">>
Venv == <<"venv">>
DotVenv == <<".venv">>
DotGit == <<".git">>

\* a str holding a path below the root (never empty)
StrOfPath(p) == [t |-> "str", s |-> "<path>", of |-> p]

(***************************************************************************)
(* Helper methods of EnvironmentDetector.                                  *)
(***************************************************************************)
_detect_python_env ==
    IF virtualEnv THEN Str("$VIRTUAL_ENV")
    ELSE IF exists(<<>>, Venv) THEN StrOfPath(AtRoot(Venv))
    ELSE IF exists(<<>>, DotVenv) THEN StrOfPath(AtRoot(DotVenv))
    ELSE None

_find_requirements ==
    IF exists(<<>>, RequirementsTxt) THEN Str("requirements.txt")
    ELSE IF exists(<<>>, PyprojectToml) THEN Str("pyproject.toml")
    ELSE IF exists(<<>>, SetupPy) THEN Str("setup.py")
    ELSE IF exists(<<>>, Pipfile) THEN Str("Pipfile")
    ELSE None

_detect_python_package_manager ==
    IF exists(<<>>, Pipfile) THEN "pipenv"
    ELSE IF exists(<<>>, PyprojectToml) THEN "poetry/pip"
    ELSE IF exists(<<>>, RequirementsTxt) THEN "pip"
    ELSE "unknown"

\* mutant: package-lock.json looked at first
NodePackageManagerNpmFirst ==
    IF exists(<<>>, PackageLock) THEN "npm"
    ELSE IF exists(<<>>, YarnLock) THEN "yarn"
    ELSE IF exists(<<>>, PnpmLock) THEN "pnpm"
    ELSE "unknown"

_detect_node_package_manager ==
    IF exists(<<>>, YarnLock) THEN "yarn"
    ELSE IF exists(<<>>, PnpmLock) THEN "pnpm"
    ELSE IF exists(<<>>, PackageLock) THEN "npm"
    ELSE "unknown"

\* data.get(key, {}) of the parsed package.json: the table's keys, or a value
\* that is no mapping
Absent == [t |-> "absent", keys |-> {}]
Null == [t |-> "null", keys |-> {}]
Table(keys) == [t |-> "table", keys |-> keys]

\* open + json.load + the two data.get + {**a, **b}: raises when the file does
\* not parse, when the document is no object, or when a table is no mapping
DepsRaises ==
    \/ pkg.kind # "object"
    \/ pkg.dependencies.t = "null"
    \/ pkg.devDependencies.t = "null"

\* mutant: vue looked for before react
JsFrameworkVueFirst ==
    IF ~exists(<<>>, PackageJson) THEN None
    ELSE IF DepsRaises THEN None
    ELSE LET deps == pkg.dependencies.keys \cup pkg.devDependencies.keys
         IN  IF "vue" \in deps THEN Str("vue")
             ELSE IF "react" \in deps THEN Str("react")
             ELSE IF "@angular/core" \in deps THEN Str("angular")
             ELSE IF "svelte" \in deps THEN Str("svelte")
             ELSE None

_detect_js_framework ==
    IF ~exists(<<>>, PackageJson) THEN None
    ELSE IF DepsRaises THEN None
    ELSE LET deps == pkg.dependencies.keys \cup pkg.devDependencies.keys
         IN  IF "react" \in deps THEN Str("react")
             ELSE IF "vue" \in deps THEN Str("vue")
             ELSE IF "@angular/core" \in deps THEN Str("angular")
             ELSE IF "svelte" \in deps THEN Str("svelte")
             ELSE None

(***************************************************************************)
(* detect_languages                                                        *)
(***************************************************************************)
PythonDetected == rglob(PyGlob) # {}

PythonEntry ==
    Dict(<< <<"files_count", Int(Cardinality(rglob(PyGlob)))>>,
            <<"current_version", _get_python_version>>,
            <<"virtual_env", _detect_python_env>>,
            <<"requirements", _find_requirements>>,
            <<"package_manager", Str(_detect_python_package_manager)>> >>)

NodeDetected ==
    exists(<<>>, PackageJson) \/ rglob(TsGlob) # {} \/ rglob(JsGlob) # {}

\* mutant: files_count leaves the .js entries out
NodeEntryCountsTsOnly ==
    Dict(<< <<"files_count", Int(Cardinality(rglob(TsGlob)))>>,
            <<"current_version", _get_node_version>>,
            <<"package_json", Bool(exists(<<>>, PackageJson))>>,
            <<"package_manager", Str(_detect_node_package_manager)>>,
            <<"framework", _detect_js_framework>> >>)

NodeEntry ==
    Dict(<< <<"files_count",
              Int(Cardinality(rglob(TsGlob)) + Cardinality(rglob(JsGlob)))>>,
            <<"current_version", _get_node_version>>,
            <<"package_json", Bool(exists(<<>>, PackageJson))>>,
            <<"package_manager", Str(_detect_node_package_manager)>>,
            <<"framework", _detect_js_framework>> >>)

\* mutant: go.mod alone does not make a go project
GoDetectedSourcesOnly == rglob(GoGlob) # {}

GoDetected == rglob(GoGlob) # {} \/ exists(<<>>, GoMod)

GoEntry ==
    Dict(<< <<"files_count", Int(Cardinality(rglob(GoGlob)))>>,
            <<"current_version", _get_go_version>>,
            <<"go_mod", Bool(exists(<<>>, GoMod))>> >>)

RustDetected == exists(<<>>, CargoToml) \/ rglob(RsGlob) # {}

RustEntry ==
    Dict(<< <<"files_count", Int(Cardinality(rglob(RsGlob)))>>,
            <<"current_version", _get_rust_version>>,
            <<"cargo_toml", Bool(exists(<<>>, CargoToml))>> >>)

detect_languages ==
    Dict((IF PythonDetected THEN << <<"python", PythonEntry>> >> ELSE <<>>)
         \o (IF NodeDetected THEN << <<"nodejs", NodeEntry>> >> ELSE <<>>)
         \o (IF GoDetected THEN << <<"go", GoEntry>> >> ELSE <<>>)
         \o (IF RustDetected THEN << <<"rust", RustEntry>> >> ELSE <<>>))

(***************************************************************************)
(* detect_infrastructure                                                   *)
(***************************************************************************)
\* docker_files: the matches of the three patterns, one pattern after the other
docker_files ==
    SetToSeq(rglob(dockerfile_patterns[1]))
    \o SetToSeq(rglob(dockerfile_patterns[2]))
    \o SetToSeq(rglob(dockerfile_patterns[3]))

IsComposeFile(p) == NameContains(p.name, "compose")
IsDockerfile(p) == NameStartsWith(p.name, "Dockerfile")

\* "files" holds str(f.relative_to(root)); the two buckets hold the Path objects
DockerEntry ==
    Dict(<< <<"files",
              List([i \in 1..Len(docker_files) |-> StrOfPath(docker_files[i])])>>,
            <<"compose_files",
              List([i \in 1..Len(SelectSeq(docker_files, IsComposeFile)) |->
                        PathObj(SelectSeq(docker_files, IsComposeFile)[i])])>>,
            <<"dockerfiles",
              List([i \in 1..Len(SelectSeq(docker_files, IsDockerfile)) |->
                        PathObj(SelectSeq(docker_files, IsDockerfile)[i])])>> >>)

GitEntry ==
    Dict(<< <<"current_branch", _get_git_branch>>,
            <<"remote_url", _get_git_remote>>,
            <<"uncommitted_changes", Bool(_has_uncommitted_changes)>> >>)

\* ci_patterns, each a path below the root and the str the report shows
ci_patterns ==
    << [dir |-> <<".github">>, name |-> <<"workflows">>, text |-> ".github/workflows"],
       [dir |-> <<>>, name |-> <<".gitlab-ci", ".yml">>, text |-> ".gitlab-ci.yml"],
       [dir |-> <<>>, name |-> <<"Jenkinsfile">>, text |-> "Jenkinsfile"],
       [dir |-> <<>>, name |-> <<".travis", ".yml">>, text |-> ".travis.yml"] >>

CiPresent(c) == exists(c.dir, c.name)

ci_files ==
    LET found == SelectSeq(ci_patterns, CiPresent)
    IN  [i \in 1..Len(found) |-> Str(found[i].text)]

detect_infrastructure ==
    Dict((IF docker_files # <<>> THEN << <<"docker", DockerEntry>> >> ELSE <<>>)
         \o (IF exists(<<>>, DotGit) THEN << <<"git", GitEntry>> >> ELSE <<>>)
         \o (IF ci_files # <<>>
             THEN << <<"ci_cd", Dict(<< <<"detected", List(ci_files)>> >>)>> >>
             ELSE <<>>))

(***************************************************************************)
(* suggest_environment_isolation                                           *)
(***************************************************************************)
\* mutant: pyenv suggested only beside the virtual-environment suggestion
PythonSuggestionsPyenvWithoutVenv(details) ==
    (IF ~Truthy(DictGet(details, "virtual_env"))
     THEN <<Str("Create Python virtual environment (venv/virtualenv)"),
            Str("Consider pyenv for Python version management")>>
     ELSE <<>>)
    \o (IF ~Truthy(DictGet(details, "requirements"))
        THEN <<Str("Create requirements.txt or pyproject.toml")>> ELSE <<>>)

PythonSuggestions(details) ==
    (IF ~Truthy(DictGet(details, "virtual_env"))
     THEN <<Str("Create Python virtual environment (venv/virtualenv)")>> ELSE <<>>)
    \o (IF ~Truthy(DictGet(details, "requirements"))
        THEN <<Str("Create requirements.txt or pyproject.toml")>> ELSE <<>>)
    \o <<Str("Consider pyenv for Python version management")>>

NodeSuggestions(details) ==
    (IF ~Truthy(DictGet(details, "package_json"))
     THEN <<Str("Initialize package.json")>> ELSE <<>>)
    \o <<Str("Consider nvm for Node.js version management")>>
    \o (IF DictGet(details, "framework") \in {Str("react"), Str("vue"), Str("angular")}
        THEN <<Str("Use framework-specific dev containers")>> ELSE <<>>)

GoSuggestions(details) ==
    (IF ~Truthy(DictGet(details, "go_mod"))
     THEN <<Str("Initialize go.mod")>> ELSE <<>>)
    \o <<Str("Consider Go workspace for multi-module projects")>>

RustSuggestions(details) ==
    IF ~Truthy(DictGet(details, "cargo_toml"))
    THEN <<Str("Initialize Cargo.toml")>> ELSE <<>>

\* lang_suggestions of one pass of the loop over languages.items()
lang_suggestions(lang, details) ==
    CASE lang = "python" -> PythonSuggestions(details)
      [] lang = "nodejs" -> NodeSuggestions(details)
      [] lang = "go" -> GoSuggestions(details)
      [] lang = "rust" -> RustSuggestions(details)
      [] OTHER -> <<>>

RECURSIVE LanguageLoop(_, _)
\* the items the loop leaves in suggestions after languages.items()[i..]
LanguageLoop(items, i) ==
    IF i > Len(items) THEN <<>>
    ELSE LET found == lang_suggestions(items[i][1], items[i][2])
         IN  (IF found # <<>> THEN << <<items[i][1], List(found)>> >> ELSE <<>>)
             \o LanguageLoop(items, i + 1)

\* mutant: the number of languages is not looked at
GeneralFiresWithoutDocker(languages, infra) == ~DictHas(infra, "docker")

\* mutant: one language is enough
GeneralFiresFromOneLanguage(languages, infra) ==
    ~DictHas(infra, "docker") /\ Len(languages.items) >= 1

\* "docker" not in infra and len(languages) > 1
GeneralFires(languages, infra) ==
    ~DictHas(infra, "docker") /\ Len(languages.items) > 1

suggest_environment_isolation ==
    LET languages == detect_languages
        infra == detect_infrastructure
    IN  Dict(LanguageLoop(languages.items, 1)
             \o (IF GeneralFires(languages, infra)
                 THEN << <<"general",
                           List(<<Str("Consider Docker for consistent development environment")>>)>> >>
                 ELSE <<>>))

(***************************************************************************)
(* check_security_tools                                                    *)
(***************************************************************************)
check_security_tools ==
    Dict(<< <<"bandit", Bool(_command_exists("bandit"))>>,
            <<"safety", Bool(_command_exists("safety"))>>,
            <<"npm_audit", Bool(_command_exists("npm") /\ _has_npm_audit)>>,
            <<"snyk", Bool(_command_exists("snyk"))>>,
            <<"semgrep", Bool(_command_exists("semgrep"))>>,
            <<"gosec", Bool(_command_exists("gosec"))>> >>)

(***************************************************************************)
(* json.dumps and json.loads                                               *)
(***************************************************************************)
RECURSIVE Serializable(_)
\* json.dumps raises TypeError on a value of a type it has no encoding for
Serializable(v) ==
    CASE v.t = "dict" ->
            \A i \in 1..Len(v.items) : Serializable(v.items[i][2])
      [] v.t = "list" -> \A i \in 1..Len(v.elems) : Serializable(v.elems[i])
      [] v.t \in {"str", "int", "bool", "None"} -> TRUE
      [] OTHER -> FALSE

RECURSIVE Encode(_)
\* the JSON document json.dumps writes for a serializable value
Encode(v) ==
    CASE v.t = "dict" ->
            [j |-> "object",
             members |-> [i \in 1..Len(v.items) |->
                             <<v.items[i][1], Encode(v.items[i][2])>>]]
      [] v.t = "list" ->
            [j |-> "array", elems |-> [i \in 1..Len(v.elems) |-> Encode(v.elems[i])]]
      [] v.t = "str" -> [j |-> "string", of |-> v]
      [] v.t = "int" -> [j |-> "number", n |-> v.n]
      [] v.t = "bool" -> [j |-> IF v.b THEN "true" ELSE "false"]
      [] v.t = "None" -> [j |-> "null"]

RECURSIVE Decode(_)
\* json.loads of a document
Decode(d) ==
    CASE d.j = "object" ->
            Dict([i \in 1..Len(d.members) |->
                     <<d.members[i][1], Decode(d.members[i][2])>>])
      [] d.j = "array" -> List([i \in 1..Len(d.elems) |-> Decode(d.elems[i])])
      [] d.j = "string" -> d.of
      [] d.j = "number" -> Int(d.n)
      [] d.j = "true" -> Bool(TRUE)
      [] d.j = "false" -> Bool(FALSE)
      [] d.j = "null" -> None

\* a str holding JSON text
JsonText(doc) == [t |-> "str", s |-> "<json>", json |-> doc]

\* what a call gives back: a value, or the exception it raised
Returns(v) == [raised |-> FALSE, value |-> v, printed |-> <<>>]
Raises(exc) == [raised |-> TRUE, value |-> Str(exc), printed |-> <<>>]

dumps(v) == IF Serializable(v) THEN Returns(JsonText(Encode(v))) ELSE Raises("TypeError")

(***************************************************************************)
(* generate_report                                                         *)
(***************************************************************************)
\* one line of the console report: the text of the f-string and the values
\* formatted into it
Line(fmt, args) == [fmt |-> fmt, args |-> args]

Title == "ENVIRONMENT DETECTION REPORT"
Rule == "=================================================="
LanguagesHeader == "DETECTED LANGUAGES:"
InfrastructureHeader == "INFRASTRUCTURE:"
SuggestionsHeader == "ENVIRONMENT ISOLATION SUGGESTIONS:"
SecurityHeader == "SECURITY TOOLS AVAILABILITY:"

RECURSIVE Flatten(_)
\* report.append over the passes of a loop
Flatten(seqs) ==
    IF seqs = <<>> THEN <<>> ELSE Head(seqs) \o Flatten(Tail(seqs))

NotCountOrVersion(item) == item[1] \notin {"files_count", "current_version"}

\* "    {key.replace('_', ' ').title()}: {value}" for each item
KeyValueLines(items) ==
    [i \in 1..Len(items) |-> Line("    {title(key)}: {value}", <<Str(items[i][1]), items[i][2]>>)]

LanguageLines(lang, details) ==
    << Line("  {upper(lang)}:", <<Str(lang)>>),
       Line("    Files: {files_count}", <<DictGet(details, "files_count")>>) >>
    \o (IF DictHas(details, "current_version")
        THEN <<Line("    Version: {current_version}",
                    <<DictGet(details, "current_version")>>)>>
        ELSE <<>>)
    \o KeyValueLines(SelectSeq(details.items, NotCountOrVersion))

ComponentLines(component, details) ==
    <<Line("  {upper(component)}:", <<Str(component)>>)>>
    \o KeyValueLines(details.items)

CategoryLines(category, items) ==
    <<Line("  {upper(category)}:", <<Str(category)>>)>>
    \o [i \in 1..Len(items.elems) |-> Line("    * {item}", <<items.elems[i]>>)]

ToolLine(tool, available) ==
    Line("  {status} {tool}", <<Str(IF available.b THEN "ok" ELSE "missing"), Str(tool)>>)

console_report(languages, infra, suggestions, security_tools) ==
    << Line(Title, <<>>), Line(Rule, <<>>), Line(LanguagesHeader, <<>>) >>
    \o Flatten([i \in 1..Len(languages.items) |->
                   LanguageLines(languages.items[i][1], languages.items[i][2])])
    \o (IF Truthy(infra)
        THEN <<Line(InfrastructureHeader, <<>>)>>
             \o Flatten([i \in 1..Len(infra.items) |->
                            ComponentLines(infra.items[i][1], infra.items[i][2])])
        ELSE <<>>)
    \o (IF Truthy(suggestions)
        THEN <<Line(SuggestionsHeader, <<>>)>>
             \o Flatten([i \in 1..Len(suggestions.items) |->
                            CategoryLines(suggestions.items[i][1],
                                          suggestions.items[i][2])])
        ELSE <<>>)
    \o <<Line(SecurityHeader, <<>>)>>
    \o [i \in 1..Len(security_tools.items) |->
           ToolLine(security_tools.items[i][1], security_tools.items[i][2])]

\* a str holding the lines joined by "\n"
ReportText(lines) == [t |-> "str", s |-> "<report>", lines |-> lines]

Formats == {"console", "json"}

generate_report(format_type) ==
    LET languages == detect_languages
        infra == detect_infrastructure
        suggestions == suggest_environment_isolation
        security_tools == check_security_tools
    IN  IF format_type = "json"
        THEN dumps(Dict(<< <<"languages", languages>>,
                           <<"infrastructure", infra>>,
                           <<"suggestions", suggestions>>,
                           <<"security_tools", security_tools>> >>))
        ELSE Returns(ReportText(
                 console_report(languages, infra, suggestions, security_tools)))

\* main: EnvironmentDetector(args.path), generate_report(args.format), print.
\* Path.resolve() of a path that is not there does not raise; an exception of
\* generate_report is not caught, and nothing is printed.
main(format_type) ==
    LET report == generate_report(format_type)
    IN  IF report.raised THEN report
        ELSE [raised |-> FALSE, value |-> None, printed |-> <<report.value>>]

(***************************************************************************)
(* Operations: each public method of the detector, and main.               *)
(***************************************************************************)
NoCall == [op |-> "none", format |-> "none"]
Called(op) == [op |-> op, format |-> "none"]

\* The detector keeps nothing between calls and the environment does not change
\* during a run: an operation is taken on the detector as constructed.
Fresh == call = NoCall

DetectLanguages ==
    /\ Fresh
    /\ call' = Called("detect_languages")
    /\ ret' = Returns(detect_languages)
    /\ UNCHANGED world

DetectInfrastructure ==
    /\ Fresh
    /\ call' = Called("detect_infrastructure")
    /\ ret' = Returns(detect_infrastructure)
    /\ UNCHANGED world

SuggestEnvironmentIsolation ==
    /\ Fresh
    /\ call' = Called("suggest_environment_isolation")
    /\ ret' = Returns(suggest_environment_isolation)
    /\ UNCHANGED world

CheckSecurityTools ==
    /\ Fresh
    /\ call' = Called("check_security_tools")
    /\ ret' = Returns(check_security_tools)
    /\ UNCHANGED world

GenerateReport ==
    \E format_type \in Formats :
        /\ Fresh
        /\ call' = [op |-> "generate_report", format |-> format_type]
        /\ ret' = generate_report(format_type)
        /\ UNCHANGED world

Main ==
    \E format_type \in Formats :
        /\ Fresh
        /\ call' = [op |-> "main", format |-> format_type]
        /\ ret' = main(format_type)
        /\ UNCHANGED world

Next ==
    \/ DetectLanguages
    \/ DetectInfrastructure
    \/ SuggestEnvironmentIsolation
    \/ CheckSecurityTools
    \/ GenerateReport
    \/ Main

(***************************************************************************)
(* The environments a run starts in.  The detector keeps no state of its   *)
(* own (detection_results is never written), so the state after            *)
(* construction is the environment.  The environments are drawn from       *)
(* families, each varying the entries one group of probes reads.           *)
(***************************************************************************)
StemNames == <<"app", "util", "core", "main", "extra">>

\* the i-th source file of a suffix: below src/ or at the root, in turn
SourcePath(suffix, i) ==
    P(IF i % 2 = 1 THEN <<"src">> ELSE <<>>, <<StemNames[i], suffix>>)

Sources(suffix, k) == {SourcePath(suffix, i) : i \in 1..k}

\* a parsed package.json with no dependency table
EmptyPackage == [kind |-> "object", dependencies |-> Absent, devDependencies |-> Absent]

\* what each invocation prints when it succeeds
NormalStdout(inv) ==
    CASE inv = "python --version" -> "Python 3.11.6"
      [] inv = "node --version" -> "v20.10.0"
      [] inv = "go version" -> "go version go1.21.5 linux/amd64"
      [] inv = "rustc --version" -> "rustc 1.74.0"
      [] inv = "git branch --show-current" -> "main"
      [] inv = "git remote get-url origin" -> "git@example.org:anvil.git"
      [] inv = "git status --porcelain" -> ""
      [] inv = "npm audit --help" -> AuditUsage
      [] OTHER -> "1.0.0"

NormalExits == [inv \in Invocations |-> [rc |-> 0, stdout |-> NormalStdout(inv)]]

\* every tool installed and working, no virtual environment active
PlainHost ==
    /\ virtualEnv = FALSE
    /\ installed = Binaries
    /\ exits = NormalExits

\* roots mixing the four languages, their manifests and a Dockerfile
LanguageManifests ==
    {AtRoot(PackageJson), AtRoot(GoMod), AtRoot(CargoToml),
     AtRoot(RequirementsTxt), AtRoot(SetupPy)}

InitLanguages ==
    \E py \in 0..MaxFiles, ts \in 0..MaxFiles, js \in 0..MaxFiles,
       go \in 0..MaxFiles, rs \in 0..MaxFiles,
       manifests \in SUBSET LanguageManifests,
       docker \in SUBSET {AtRoot(<<"Dockerfile">>)} :
        /\ rootExists = TRUE
        /\ fs = Sources(".py", py) \cup Sources(".ts", ts) \cup Sources(".js", js)
                \cup Sources(".go", go) \cup Sources(".rs", rs)
                \cup manifests \cup docker
        /\ pkg = EmptyPackage
        /\ PlainHost

\* Python roots: manifests, virtual environments
PythonManifests ==
    {AtRoot(RequirementsTxt), AtRoot(PyprojectToml), AtRoot(SetupPy), AtRoot(Pipfile)}

InitPython ==
    \E py \in 0..MaxFiles,
       manifests \in SUBSET PythonManifests,
       venvs \in SUBSET {AtRoot(Venv), AtRoot(DotVenv)},
       active \in BOOLEAN :
        /\ rootExists = TRUE
        /\ fs = Sources(".py", py) \cup manifests \cup venvs
        /\ pkg = EmptyPackage
        /\ virtualEnv = active
        /\ installed = Binaries
        /\ exits = NormalExits

\* Node.js roots: lockfiles
NodeLockfiles == {AtRoot(YarnLock), AtRoot(PnpmLock), AtRoot(PackageLock)}

InitNode ==
    \E ts \in 0..MaxFiles, js \in 0..MaxFiles,
       locks \in SUBSET NodeLockfiles,
       manifest \in SUBSET {AtRoot(PackageJson)},
       framework \in {{}, {"react"}} :
        /\ rootExists = TRUE
        /\ fs = Sources(".ts", ts) \cup Sources(".js", js) \cup locks \cup manifest
        /\ pkg = [kind |-> "object", dependencies |-> Table(framework),
                  devDependencies |-> Absent]
        /\ PlainHost

\* Node.js roots: what package.json holds
DepNames == {"react", "vue", "@angular/core", "svelte", "lodash"}

DepTables ==
    {Absent, Null}
    \cup {Table(keys) : keys \in {k \in SUBSET DepNames : Cardinality(k) <= MaxDeps}}

Packages ==
    {[kind |-> "invalid", dependencies |-> Absent, devDependencies |-> Absent],
     [kind |-> "array", dependencies |-> Absent, devDependencies |-> Absent]}
    \cup [kind : {"object"}, dependencies : DepTables, devDependencies : DepTables]

InitFramework ==
    \E content \in Packages :
        /\ rootExists = TRUE
        /\ fs = {AtRoot(PackageJson)}
        /\ pkg = content
        /\ PlainHost

\* roots with container, version-control and CI files, and the root that is
\* not there
DockerPaths ==
    {AtRoot(<<"Dockerfile">>),
     P(<<"deploy">>, <<"Dockerfile", ".dev">>),
     AtRoot(<<"docker-", "compose", ".yml">>),
     P(<<"deploy">>, <<"docker-", "compose", ".prod", ".yaml">>)}

CiPaths == {P(ci_patterns[i].dir, ci_patterns[i].name) : i \in 1..Len(ci_patterns)}

InitInfrastructure ==
    \E docker \in SUBSET DockerPaths,
       git \in SUBSET {AtRoot(DotGit)},
       ci \in SUBSET CiPaths,
       languages \in {{}, Sources(".py", 1), Sources(".py", 1) \cup {AtRoot(GoMod)}},
       dirty \in {"", " M app.py"} :
        /\ git = {} => dirty = ""
        /\ rootExists = TRUE
        /\ fs = docker \cup git \cup ci \cup languages
        /\ pkg = EmptyPackage
        /\ virtualEnv = FALSE
        /\ installed = Binaries
        /\ exits = [NormalExits EXCEPT !["git status --porcelain"].stdout = dirty]

InitMissingRoot ==
    /\ rootExists = FALSE
    /\ fs = {}
    /\ pkg = EmptyPackage
    /\ PlainHost

\* a root with the four languages under version control, on hosts where
\* binaries are missing or an invocation exits nonzero
PolyglotRoot ==
    Sources(".py", 1) \cup {AtRoot(PackageJson), AtRoot(GoMod), AtRoot(CargoToml),
                            AtRoot(DotGit)}

InitProbes ==
    \E missing \in {{}, Binaries} \cup {{b} : b \in Binaries},
       failing \in {{}} \cup {{inv} : inv \in Invocations},
       out \in {"", "noise"} :
        /\ failing = {} => out = ""
        /\ rootExists = TRUE
        /\ fs = PolyglotRoot
        /\ pkg = EmptyPackage
        /\ virtualEnv = FALSE
        /\ installed = Binaries \ missing
        /\ exits = [inv \in Invocations |->
                       IF inv \in failing THEN [rc |-> 1, stdout |-> out]
                       ELSE NormalExits[inv]]

Init ==
    /\ call = NoCall
    /\ ret = Returns(None)
    /\ \/ InitLanguages
       \/ InitPython
       \/ InitNode
       \/ InitFramework
       \/ InitInfrastructure
       \/ InitMissingRoot
       \/ InitProbes

Spec == Init /\ [][Next]_vars

(***************************************************************************)
(* Properties.                                                             *)
(***************************************************************************)
Languages == {"python", "nodejs", "go", "rust"}

\* the entries below the root whose name ends in the suffix
EntriesEnding(suffix) ==
    {p \in fs : Len(p.name) >= 1 /\ p.name[Len(p.name)] = suffix}

\* the source suffixes of a language
SourceSuffixes(lang) ==
    CASE lang = "python" -> {".py"}
      [] lang = "nodejs" -> {".ts", ".js"}
      [] lang = "go" -> {".go"}
      [] lang = "rust" -> {".rs"}

SourceEntries(lang) == UNION {EntriesEnding(sfx) : sfx \in SourceSuffixes(lang)}

\* the manifest names of a language, at the root
ManifestNames(lang) ==
    CASE lang = "python" -> {RequirementsTxt, PyprojectToml, SetupPy, Pipfile}
      [] lang = "nodejs" -> {PackageJson}
      [] lang = "go" -> {GoMod}
      [] lang = "rust" -> {CargoToml}

HasManifest(lang) == \E name \in ManifestNames(lang) : AtRoot(name) \in fs

ReturnedBy(op) == call.op = op /\ ~ret.raised

\* ret.value[lang][key] of a detect_languages result
Finding(lang, key) == DictGet(DictGet(ret.value, lang), key)

\* C1: generate_report("json") returns, for every root, a string that parses
\* back to a mapping whose keys are exactly languages, infrastructure,
\* suggestions and security_tools.
C1_JsonReportParsesToFourKeys ==
    (call.op = "generate_report" /\ call.format = "json") =>
        /\ ~ret.raised
        /\ LET doc == Decode(ret.value.json)
           IN  /\ doc.t = "dict"
               /\ DictKeys(doc) = <<"languages", "infrastructure", "suggestions",
                                    "security_tools">>

\* the invocation that gives a language its current_version
VersionInvocation(lang) ==
    CASE lang = "python" -> "python --version"
      [] lang = "nodejs" -> "node --version"
      [] lang = "go" -> "go version"
      [] lang = "rust" -> "rustc --version"

\* the invocation fails: the binary is missing, or it exits nonzero
Failed(inv) == BinaryOf(inv) \notin installed \/ exits[inv].rc # 0

ToolInvocations(tool) ==
    CASE tool = "bandit" -> {"bandit --version"}
      [] tool = "safety" -> {"safety --version"}
      [] tool = "npm_audit" -> {"npm --version", "npm audit --help"}
      [] tool = "snyk" -> {"snyk --version"}
      [] tool = "semgrep" -> {"semgrep --version"}
      [] tool = "gosec" -> {"gosec --version"}

\* C2: whenever an external command fails (binary missing or nonzero exit) the
\* version field is "unknown", the tool-availability or dirty flag is false, and
\* generate_report completes without raising.
C2_FailedProbeGivesUnknownOrFalse ==
    /\ ReturnedBy("detect_languages") =>
          \A lang \in Languages :
              (DictHas(ret.value, lang) /\ Failed(VersionInvocation(lang)))
                  => Finding(lang, "current_version") = Str("unknown")
    /\ ReturnedBy("check_security_tools") =>
          \A i \in 1..Len(ret.value.items) :
              (\E inv \in ToolInvocations(ret.value.items[i][1]) : Failed(inv))
                  => ~ret.value.items[i][2].b
    /\ (ReturnedBy("detect_infrastructure") /\ DictHas(ret.value, "git")
            /\ Failed("git status --porcelain"))
          => ~Finding("git", "uncommitted_changes").b
    /\ (call.op = "generate_report" /\ \E inv \in Invocations : Failed(inv))
          => ~ret.raised

\* C3 as stated: each of the four languages has an entry exactly when the root
\* holds a source file of the language or the language's manifest.
C3_EntryIffSourcesOrManifest ==
    ReturnedBy("detect_languages") =>
        \A lang \in Languages :
            DictHas(ret.value, lang) <=>
                (SourceEntries(lang) # {} \/ HasManifest(lang))

\* C3 as amended: nodejs, go and rust have an entry exactly when the root holds
\* a source file of the language or its manifest (package.json, go.mod,
\* Cargo.toml) at the root; python has an entry exactly when the root holds a
\* .py entry, whatever Python manifests are there.
C3_EntryIffSourcesOrManifestExceptPython ==
    ReturnedBy("detect_languages") =>
        /\ \A lang \in {"nodejs", "go", "rust"} :
              DictHas(ret.value, lang) <=>
                  (SourceEntries(lang) # {} \/ HasManifest(lang))
        /\ DictHas(ret.value, "python") <=> SourceEntries("python") # {}

\* C3 witness: a root with a Python manifest and no .py entry gets no python
\* entry, while a manifest alone gives go its entry.
C3_Witness ==
    /\ ReturnedBy("detect_languages")
    /\ AtRoot(RequirementsTxt) \in fs
    /\ SourceEntries("python") = {}
    /\ ~DictHas(ret.value, "python")
    /\ AtRoot(GoMod) \in fs
    /\ SourceEntries("go") = {}
    /\ DictHas(ret.value, "go")

\* C4: files_count of every language entry is the number of entries under the
\* root with the language's source suffixes, and a go entry found from go.mod
\* alone has files_count 0 and go_mod true.
C4_FilesCountIsNumberOfSources ==
    ReturnedBy("detect_languages") =>
        /\ \A lang \in Languages :
              DictHas(ret.value, lang) =>
                  Finding(lang, "files_count") = Int(Cardinality(SourceEntries(lang)))
        /\ (AtRoot(GoMod) \in fs /\ SourceEntries("go") = {}) =>
              /\ DictHas(ret.value, "go")
              /\ Finding("go", "files_count") = Int(0)
              /\ Finding("go", "go_mod") = Bool(TRUE)

\* C4 witness: go found from go.mod alone, beside a nodejs entry that counts
\* both a .ts and a .js entry.
C4_Witness ==
    /\ ReturnedBy("detect_languages")
    /\ AtRoot(GoMod) \in fs
    /\ SourceEntries("go") = {}
    /\ Finding("go", "files_count") = Int(0)
    /\ EntriesEnding(".ts") # {}
    /\ EntriesEnding(".js") # {}
    /\ Finding("nodejs", "files_count")
          = Int(Cardinality(EntriesEnding(".ts")) + Cardinality(EntriesEnding(".js")))

\* the manager of the first name of the list that is at the root
FirstPresent(order) ==
    IF \E i \in 1..Len(order) : AtRoot(order[i][1]) \in fs
    THEN order[CHOOSE i \in 1..Len(order) :
                   /\ AtRoot(order[i][1]) \in fs
                   /\ \A k \in 1..(i - 1) : AtRoot(order[k][1]) \notin fs][2]
    ELSE "unknown"

NodeManagerOrder ==
    << <<YarnLock, "yarn">>, <<PnpmLock, "pnpm">>, <<PackageLock, "npm">> >>

PythonManagerOrder ==
    << <<Pipfile, "pipenv">>, <<PyprojectToml, "poetry/pip">>,
       <<RequirementsTxt, "pip">> >>

\* C5: the package manager is the first match of a fixed list (nodejs:
\* yarn.lock, pnpm-lock.yaml, package-lock.json; python: Pipfile,
\* pyproject.toml, requirements.txt) and "unknown" when none is there.
C5_PackageManagerIsFirstMatch ==
    ReturnedBy("detect_languages") =>
        /\ DictHas(ret.value, "nodejs") =>
              Finding("nodejs", "package_manager") = Str(FirstPresent(NodeManagerOrder))
        /\ DictHas(ret.value, "python") =>
              Finding("python", "package_manager") = Str(FirstPresent(PythonManagerOrder))

\* C5 witness: yarn.lock beside package-lock.json gives "yarn".
C5_Witness ==
    /\ ReturnedBy("detect_languages")
    /\ AtRoot(YarnLock) \in fs
    /\ AtRoot(PackageLock) \in fs
    /\ DictHas(ret.value, "nodejs")
    /\ Finding("nodejs", "package_manager") = Str("yarn")

FrameworkPriority ==
    << <<"react", "react">>, <<"vue", "vue">>, <<"@angular/core", "angular">>,
       <<"svelte", "svelte">> >>

\* package.json is there and parses to an object whose tables are mappings
PackageReadable ==
    /\ AtRoot(PackageJson) \in fs
    /\ pkg.kind = "object"
    /\ pkg.dependencies.t # "null"
    /\ pkg.devDependencies.t # "null"

DeclaredDeps == pkg.dependencies.keys \cup pkg.devDependencies.keys

\* C6: the framework is the first of react, vue, @angular/core (angular),
\* svelte among the keys of dependencies and devDependencies; a missing or
\* unparsable package.json gives no framework, and nothing is raised.
C6_FrameworkIsFirstInPriority ==
    call.op = "detect_languages" =>
        /\ ~ret.raised
        /\ AtRoot(PackageJson) \in fs => DictHas(ret.value, "nodejs")
        /\ DictHas(ret.value, "nodejs") => Finding("nodejs", "framework") =
              IF PackageReadable
                 /\ \E i \in 1..Len(FrameworkPriority) :
                        FrameworkPriority[i][1] \in DeclaredDeps
              THEN Str(FrameworkPriority[
                       CHOOSE i \in 1..Len(FrameworkPriority) :
                           /\ FrameworkPriority[i][1] \in DeclaredDeps
                           /\ \A k \in 1..(i - 1) :
                                  FrameworkPriority[k][1] \notin DeclaredDeps][2])
              ELSE None

\* C6 witness: vue in dependencies and react in devDependencies give "react".
C6_Witness ==
    /\ ReturnedBy("detect_languages")
    /\ PackageReadable
    /\ "vue" \in pkg.dependencies.keys
    /\ "react" \in pkg.devDependencies.keys
    /\ Finding("nodejs", "framework") = Str("react")

\* a line of the console report that opens the suggestions section
HasSuggestionsSection(report) ==
    \E i \in 1..Len(report.lines) : report.lines[i].fmt = SuggestionsHeader

NothingDetected ==
    /\ detect_languages = Dict(<<>>)
    /\ detect_infrastructure = Dict(<<>>)

\* C7: with no language and no infrastructure category detected, the
\* suggestions are empty and the console report has no suggestions section.
C7_NothingDetectedNoSuggestions ==
    NothingDetected =>
        /\ call.op = "suggest_environment_isolation" =>
              ~ret.raised /\ ret.value = Dict(<<>>)
        /\ (call.op = "generate_report" /\ call.format = "console") =>
              ~ret.raised /\ ~HasSuggestionsSection(ret.value)

\* C7 witness: a console report of a root that is not empty, yet holds nothing
\* the detectors look for.
C7_Witness ==
    /\ NothingDetected
    /\ fs # {}
    /\ call.op = "generate_report"
    /\ call.format = "console"
    /\ ~HasSuggestionsSection(ret.value)

\* C8: when the project root cannot be read (it does not exist), the run ends
\* with an error and no report is produced.
C8_MissingRootEndsInError ==
    (call.op = "main" /\ ~rootExists) => (ret.raised /\ ret.printed = <<>>)

ContainerizationSuggestion ==
    Str("Consider Docker for consistent development environment")

\* C9: the suggestions hold a "general" category, with exactly the one
\* containerization suggestion, if and only if more than one language is
\* detected and no docker file is found.
C9_GeneralIffSeveralLanguagesNoDocker ==
    ReturnedBy("suggest_environment_isolation") =>
        /\ DictHas(ret.value, "general") <=>
              /\ Cardinality({lang \in Languages :
                                  DictHas(detect_languages, lang)}) > 1
              /\ ~DictHas(detect_infrastructure, "docker")
        /\ DictHas(ret.value, "general") =>
              DictGet(ret.value, "general") = List(<<ContainerizationSuggestion>>)

\* C9 witness: two languages and no docker file give the general suggestion.
C9_Witness ==
    /\ ReturnedBy("suggest_environment_isolation")
    /\ Len(detect_languages.items) = 2
    /\ DictGet(ret.value, "general") = List(<<ContainerizationSuggestion>>)

\* the suggestions that name a version manager
VersionManagerSuggestion(lang) ==
    CASE lang = "python" -> Str("Consider pyenv for Python version management")
      [] lang = "nodejs" -> Str("Consider nvm for Node.js version management")

IsVersionManagerSuggestion(s) ==
    \E lang \in {"python", "nodejs"} : s = VersionManagerSuggestion(lang)

InList(list, s) == \E i \in 1..Len(list.elems) : list.elems[i] = s

\* C10 as stated: every detected language, python, nodejs, go and rust alike,
\* has a suggestion list holding a version-manager suggestion.
C10_EveryLanguageGetsVersionManager ==
    ReturnedBy("suggest_environment_isolation") =>
        \A lang \in Languages :
            DictHas(detect_languages, lang) =>
                /\ DictHas(ret.value, lang)
                /\ \E i \in 1..Len(DictGet(ret.value, lang).elems) :
                       IsVersionManagerSuggestion(DictGet(ret.value, lang).elems[i])

\* C10 as amended: a detected python or nodejs always has a suggestion list
\* holding its version-manager suggestion (pyenv, nvm); a detected go always
\* has the Go workspace suggestion and no version-manager suggestion; a
\* detected rust has a list, holding only "Initialize Cargo.toml", exactly
\* when Cargo.toml is missing.
C10_VersionManagerForPythonAndNode ==
    ReturnedBy("suggest_environment_isolation") =>
        /\ \A lang \in {"python", "nodejs"} :
              DictHas(detect_languages, lang) =>
                  /\ DictHas(ret.value, lang)
                  /\ InList(DictGet(ret.value, lang), VersionManagerSuggestion(lang))
        /\ DictHas(detect_languages, "go") =>
              /\ DictHas(ret.value, "go")
              /\ InList(DictGet(ret.value, "go"),
                        Str("Consider Go workspace for multi-module projects"))
              /\ \A i \in 1..Len(DictGet(ret.value, "go").elems) :
                     ~IsVersionManagerSuggestion(DictGet(ret.value, "go").elems[i])
        /\ DictHas(detect_languages, "rust") =>
              IF AtRoot(CargoToml) \in fs
              THEN ~DictHas(ret.value, "rust")
              ELSE DictGet(ret.value, "rust") = List(<<Str("Initialize Cargo.toml")>>)

\* C10 witness: python inside a virtual environment with a manifest still gets
\* pyenv, beside a rust with Cargo.toml that gets no list.
C10_Witness ==
    /\ ReturnedBy("suggest_environment_isolation")
    /\ AtRoot(RequirementsTxt) \in fs
    /\ DictHas(detect_languages, "python")
    /\ InList(DictGet(ret.value, "python"), VersionManagerSuggestion("python"))
    /\ DictHas(detect_languages, "rust")
    /\ ~DictHas(ret.value, "rust")

====
